---- MODULE Spec2Model ----
(***************************************************************************)
(* A model of the visa-sdk client core: the typestate builder              *)
(* (src/src/client/builder.rs, state.rs), the built VisaClient and its     *)
(* request pipeline (src/src/client/client.rs) and the fixed domain table  *)
(* (src/src/api/constants.rs).                                             *)
(*                                                                         *)
(* Representation.                                                         *)
(*   - A Rust String / Vec<u8> that is encoded or compared byte-wise is a  *)
(*     sequence of byte values (58 is ':').                                *)
(*   - A URL literal is a sequence of lexical tokens                       *)
(*     <<"https", "://", host, "/", segment, ...>>; Url_parse turns it     *)
(*     into the Url value and Url_as_str serialises the value again.       *)
(*   - A unit struct (WithoutMutualTls, WithoutMessageLevelEncryption) is  *)
(*     the empty tuple and a tuple struct WithX(v) is the 1-tuple <<v>>,   *)
(*     so that self.mutual_tls.0 is mutual_tls[1].                         *)
(*   - Option<T>: None is <<>>, Some(v) is <<v>>.                          *)
(*   - A panic (Result::unwrap on Err) is an outcome of the call: the call *)
(*     produces no value and the caller observes "panic".                  *)
(***************************************************************************)
EXTENDS Integers, Sequences, FiniteSets, TLC

\* ------------------------------------------------------------------ bounds
\* Number of VisaClient values alive (built or cloned).
MaxClients == 2
\* Number of execute_request calls the caller starts (they may overlap).
MaxCalls == 2
\* Number of endpoint wrappers constructed.
MaxApis == 2

\* ------------------------------------------------------------- Option<T>
None == <<>>
Some(v) == <<v>>

\* --------------------------------------------------------------- ApiLevel
ApiLevel == {"Sandbox", "Certification", "Production"}
ApiLevel_default == "Sandbox"

\* ------------------------------------------------------------ input values
\* "u" and "v:" (a user id that contains the separator of RFC 7617).
UserIds == { <<117>>, <<118, 58>> }
\* "p"
Passwords == { <<112>> }
\* Certificate blobs: a PKCS12 archive protected by the passphrase PfxPass,
\* and bytes that are no PKCS12 archive at all.
PfxPass == <<107>>
Certs == { "pkcs12_der", "not_pkcs12" }
CertKeys == { None, Some(PfxPass) }

MutualTlsInputs ==
    [user_id : UserIds, password : Passwords, cert : Certs, cert_key : CertKeys]

\* MessageLevelEncryption values: the derived Default (all keys empty) and
\* one with key material.
MessageLevelEncryptionInputs ==
    { [client_private_key |-> <<>>, client_private_key_pass |-> None,
       server_public_key |-> <<>>],
      [client_private_key |-> <<99>>, client_private_key_pass |-> None,
       server_public_key |-> <<115>>] }

\* ------------------------------------------------------------ state markers
WithoutMutualTls == <<>>
WithMutualTls(mutual_tls) == <<mutual_tls>>
WithoutMessageLevelEncryption == <<>>
WithMessageLevelEncryption(mle) == <<mle>>

\* A variant that looks at the configuration: true only when it holds a
\* client key.
has_mle_keyed(message_level_encryption) ==
    IF message_level_encryption = WithoutMessageLevelEncryption
    THEN FALSE
    ELSE message_level_encryption[1].client_private_key # <<>>

\* MessageLevelEncryptionState::has_mle: the trait default (false) for
\* WithoutMessageLevelEncryption, the override (true) for
\* WithMessageLevelEncryption, whatever the configuration holds.
has_mle(message_level_encryption) ==
    IF message_level_encryption = WithoutMessageLevelEncryption
    THEN FALSE
    ELSE TRUE

\* --------------------------------------------------------------------- Url
\* Url::parse of a tokenised absolute URL. The path of an http(s) URL is
\* never empty: a literal without a path gets the root path "/".
Url_parse(lit) ==
    [scheme |-> lit[1],
     host   |-> lit[3],
     path   |-> IF Len(lit) >= 4 THEN SubSeq(lit, 4, Len(lit)) ELSE <<"/">>]

\* Url::as_str: the serialisation of a Url value.
Url_as_str(url) == <<url.scheme, "://", url.host>> \o url.path

VISA_DOMAIN_SANDBOX == Url_parse(<<"https", "://", "sandbox.api.visa.com">>)
VISA_DOMAIN_CERTIFICATION == Url_parse(<<"https", "://", "cert.api.visa.com">>)
VISA_DOMAIN_PRODUCTION == Url_parse(<<"https", "://", "api.visa.com">>)


\* ------------------------------------------------------------ call outcomes
\* What a call of a function that may unwind gives its caller.
Returns(v) == [panic |-> FALSE, value |-> v]
Panic == [panic |-> TRUE]
\* core::result::Result
Ok(v) == [ok |-> TRUE, value |-> v]
Err(e) == [ok |-> FALSE, error |-> e]

\* ------------------------------------------------------------------ state
VARIABLES
    builder,    \* Option: the VisaClientBuilder value the caller holds
    clients,    \* the VisaClient values alive, in order of creation
    parsed,     \* one entry per identity from_pkcs12_der produced
    calls,      \* the execute_request calls started, one per caller task
    ret,        \* what the caller's last completed synchronous call gave it
    setters,    \* for each setter, the argument of its last call on the
                \* builder the caller holds (None: not called)
    apis        \* the endpoint wrappers (HelloWorld, ForeignExchange) alive

vars == <<builder, clients, parsed, calls, ret, setters, apis>>

\* ------------------------------------------------------- VisaClientBuilder
\* A variant of new() whose api_level starts at Production.
VisaClientBuilder_new_production ==
    [mutual_tls               |-> WithoutMutualTls,
     message_level_encryption |-> WithoutMessageLevelEncryption,
     api_level                |-> "Production"]

\* VisaClientBuilder::new: the derived Default of every field.
VisaClientBuilder_new ==
    [mutual_tls               |-> WithoutMutualTls,
     message_level_encryption |-> WithoutMessageLevelEncryption,
     api_level                |-> ApiLevel_default]

\* A variant that builds the new builder with the default api_level.
set_mutual_tls_resetting(self, mutual_tls) ==
    [mutual_tls               |-> WithMutualTls(mutual_tls),
     message_level_encryption |-> self.message_level_encryption,
     api_level                |-> ApiLevel_default]

set_mutual_tls(self, mutual_tls) ==
    [mutual_tls               |-> WithMutualTls(mutual_tls),
     message_level_encryption |-> self.message_level_encryption,
     api_level                |-> self.api_level]

\* A variant that builds the new builder with default credentials in place
\* of the stored ones.
set_message_level_encryption_resetting(self, message_level_encryption) ==
    [message_level_encryption |-> message_level_encryption,
     mutual_tls               |-> IF self.mutual_tls = WithoutMutualTls
                                  THEN WithoutMutualTls
                                  ELSE WithMutualTls(
                                         [user_id |-> <<>>, password |-> <<>>,
                                          cert |-> self.mutual_tls[1].cert,
                                          cert_key |-> self.mutual_tls[1].cert_key]),
     api_level                |-> self.api_level]

set_message_level_encryption(self, message_level_encryption) ==
    [message_level_encryption |-> message_level_encryption,
     mutual_tls               |-> self.mutual_tls,
     api_level                |-> self.api_level]

\* A variant that also returns the MLE phase to its default.
set_api_level_resetting(self, api_level) ==
    [self EXCEPT !.api_level = api_level,
                 !.message_level_encryption = WithoutMessageLevelEncryption]

set_api_level(self, api_level) == [self EXCEPT !.api_level = api_level]

\* A variant that gives the client Config::default().
build_api_config_default(self) == [api_level |-> ApiLevel_default]

build_api_config(self) == [api_level |-> self.api_level]

\* #[derive(Clone)] of VisaClientBuilder: every field cloned (owned strings,
\* bytes and an enum: the clone shares nothing with the original).
VisaClientBuilder_clone(self) ==
    [mutual_tls               |-> self.mutual_tls,
     message_level_encryption |-> self.message_level_encryption,
     api_level                |-> self.api_level]

\* build_headers: one User-Agent header, "visa_sdk/v" followed by the
\* package version.
build_headers ==
    << <<"user-agent", <<"visa_sdk/v", "CARGO_PKG_VERSION">> >> >>

\* reqwest::Identity::from_pkcs12_der as build_reqwest uses it: an identity
\* when the bytes are a PKCS12 archive that the password opens, an error
\* otherwise.
from_pkcs12_der(der, password) ==
    IF der = "pkcs12_der" /\ password = PfxPass
    THEN Ok([pkcs12 |-> der, password |-> password])
    ELSE Err("reqwest::Error(Builder)")

\* A variant of build_reqwest that keeps the parse result instead of
\* unwrapping it, leaving a failed parse to be met when the handle is used.
build_reqwest_deferred(self, arc) ==
    Returns([arc             |-> arc,
             identity        |-> from_pkcs12_der(
                                    self.mutual_tls[1].cert,
                                    IF self.mutual_tls[1].cert_key # None
                                    THEN self.mutual_tls[1].cert_key[1]
                                    ELSE <<>>),
             default_headers |-> build_headers])

\* build_reqwest: the identity is parsed from the stored certificate and
\* unwrapped; `arc` is the allocation of the new reqwest::Client.
build_reqwest(self, arc) ==
    LET certificate_identity ==
            from_pkcs12_der(
                self.mutual_tls[1].cert,
                IF self.mutual_tls[1].cert_key # None
                THEN self.mutual_tls[1].cert_key[1]
                ELSE <<>>)
    IN  IF ~certificate_identity.ok
        THEN Panic
        ELSE Returns([arc             |-> arc,
                      identity        |-> certificate_identity.value,
                      default_headers |-> build_headers])

\* build, defined in the impl block of VisaClientBuilder<WithMutualTls, MLE>.
build(self, arc) ==
    IF build_reqwest(self, arc).panic
    THEN Panic
    ELSE Returns([mutual_tls               |-> self.mutual_tls[1],
                  message_level_encryption |-> self.message_level_encryption,
                  config                   |-> build_api_config(self),
                  client                   |-> build_reqwest(self, arc).value])

\* The type parameter MTLS of a builder value.
MTLS(self) ==
    IF self.mutual_tls = WithoutMutualTls
    THEN "WithoutMutualTls"
    ELSE "WithMutualTls"

\* A variant in which build() is defined only for
\* VisaClientBuilder<WithMutualTls, WithMessageLevelEncryption>.
has_build_mle_gated(self) ==
    MTLS(self) = "WithMutualTls" /\ has_mle(self.message_level_encryption)

\* Whether build() exists for the builder's type: the impl block that
\* defines it is the one for VisaClientBuilder<WithMutualTls, MLE>, for
\* every MLE.
has_build(self) == MTLS(self) = "WithMutualTls"

\* --------------------------------------------------------------- VisaClient
get_config(self) == self.config

\* A variant with the Certification and Production arms exchanged.
get_base_url_swapped(self) ==
    CASE self.config.api_level = "Sandbox" -> VISA_DOMAIN_SANDBOX
      [] self.config.api_level = "Certification" -> VISA_DOMAIN_PRODUCTION
      [] self.config.api_level = "Production" -> VISA_DOMAIN_CERTIFICATION

get_base_url(self) ==
    CASE self.config.api_level = "Sandbox" -> VISA_DOMAIN_SANDBOX
      [] self.config.api_level = "Certification" -> VISA_DOMAIN_CERTIFICATION
      [] self.config.api_level = "Production" -> VISA_DOMAIN_PRODUCTION

\* #[derive(Clone)] of VisaClient: every field cloned; the reqwest::Client
\* clone is another handle to the same allocation.
VisaClient_clone(self) == self

\* ------------------------------------------------------------ HTTP values
\* The requests the caller hands to execute_request: Request::new(GET, url)
\* with no body, or with a body put in place (as the endpoint wrappers do).
RequestUrl == Url_parse(<<"https", "://", "cert.api.visa.com", "/", "ping">>)
Bodies == { None, Some("payload") }
Requests ==
    [method : {"GET"}, url : {RequestUrl}, headers : {<<>>}, body : Bodies]

\* What the transport can make of one dispatched request.
Responses == [status : {"200 OK", "500 Internal Server Error"},
              body : {"{\"message\":\"ok\"}"}]
TransportOutcomes ==
    {Ok(r) : r \in Responses} \cup {Err("reqwest::Error(Connect)")}

\* ------------------------------------------------------------------ base64
\* The standard alphabet as indices 0..63, 64 for the padding '='.
RECURSIVE base64_encode(_)
base64_encode(bytes) ==
    CASE Len(bytes) = 0 -> <<>>
      [] Len(bytes) = 1 ->
            << bytes[1] \div 4, (bytes[1] % 4) * 16, 64, 64 >>
      [] Len(bytes) = 2 ->
            << bytes[1] \div 4,
               (bytes[1] % 4) * 16 + bytes[2] \div 16,
               (bytes[2] % 16) * 4,
               64 >>
      [] OTHER ->
            << bytes[1] \div 4,
               (bytes[1] % 4) * 16 + bytes[2] \div 16,
               (bytes[2] % 16) * 4 + bytes[3] \div 64,
               bytes[3] % 64 >>
            \o base64_encode(SubSeq(bytes, 4, Len(bytes)))

\* reqwest's RequestBuilder::basic_auth: an Authorization header whose value
\* is "Basic " followed by base64 of username, ':' and the password (when
\* there is one), added to the request's headers.
basic_auth(req, username, password) ==
    [req EXCEPT !.request.headers =
        Append(@, <<"authorization",
                    [scheme |-> "Basic",
                     token  |-> base64_encode(
                                    username \o <<58>> \o
                                    (IF password # None THEN password[1] ELSE <<>>))]>>)]

\* RequestBuilder::from_parts. `steps` lists, in order, the pipeline steps
\* that have been applied to the builder since.
from_parts(client, request) ==
    [client |-> client, request |-> request, steps |-> <<>>]

\* A pipeline step took `req` and gave it back.
Step(name, req) == [req EXCEPT !.steps = Append(@, name)]

\* RequestBuilder::send: the request leaves over the builder's client, which
\* adds its default headers where the request has none of that name.
send(req) ==
    [via     |-> req.client,
     steps   |-> Append(req.steps, "send"),
     request |-> [req.request EXCEPT !.headers =
                    @ \o SelectSeq(req.client.default_headers,
                                   LAMBDA h : \A j \in 1..Len(req.request.headers) :
                                                 req.request.headers[j][1] # h[1])]]

\* ------------------------------------------------- VisaClient::execute_request
\* A variant that passes the password as the username and the user id as
\* the password.
apply_auth_swapped(self, req) ==
    Step("apply_auth",
         basic_auth(req, self.mutual_tls.password, Some(self.mutual_tls.user_id)))

apply_auth(self, req) ==
    Step("apply_auth",
         basic_auth(req, self.mutual_tls.user_id, Some(self.mutual_tls.password)))

\* A variant whose MLE branch replaces the body by a ciphertext.
apply_message_level_encryption_encrypting(self, req) ==
    IF ~has_mle(self.message_level_encryption)
    THEN Step("apply_message_level_encryption", req)
    ELSE Step("apply_message_level_encryption",
              [req EXCEPT !.request.body = Some("ciphertext")])

\* The early return when no MLE is configured, and the unimplemented
\* transform (the TODO) otherwise: the builder is returned as it came.
apply_message_level_encryption(self, req) ==
    IF ~has_mle(self.message_level_encryption)
    THEN Step("apply_message_level_encryption", req)
    ELSE Step("apply_message_level_encryption", req)

\* A variant that builds a reqwest::Client for the call, parsing the
\* certificate again, as build_reqwest does.
transport_handle_rebuilt(self) ==
    [arc             |-> 0,
     identity        |-> from_pkcs12_der(
                            self.mutual_tls.cert,
                            IF self.mutual_tls.cert_key # None
                            THEN self.mutual_tls.cert_key[1]
                            ELSE <<>>).value,
     default_headers |-> build_headers]

\* The handle execute_request gives the RequestBuilder: a clone of the
\* client's reqwest::Client (the same allocation).
transport_handle(self) == self.client

\* A variant that applies the MLE step before the authentication.
execute_request_mle_first(self, request) ==
    LET builder_        == from_parts(transport_handle(self), request)
        mle_request     == apply_message_level_encryption(self, builder_)
        authed_request  == apply_auth(self, mle_request)
    IN  send(authed_request)

\* execute_request up to its await: the request that send() dispatches.
execute_request(self, request) ==
    LET builder_        == from_parts(transport_handle(self), request)
        authed_request  == apply_auth(self, builder_)
        mle_request     == apply_message_level_encryption(self, authed_request)
    IN  send(mle_request)

\* A variant that inspects the status and turns a response that is not a
\* success into an error (reqwest's error_for_status).
execute_request_result_for_status(outcome) ==
    IF outcome.ok /\ outcome.value.status # "200 OK"
    THEN Err("reqwest::Error(Status)")
    ELSE outcome

\* execute_request after its await: the transport's outcome is the value of
\* the function.
execute_request_result(outcome) == outcome

\* The allocation a newly built reqwest::Client gets: one that no live
\* client holds.
FreshArc == Len(clients) + 1

\* ----------------------------------------------------------------- actions
\* The record of the setter calls of a builder on which none was made.
NoSetterCalled ==
    [mutual_tls |-> None, message_level_encryption |-> None, api_level |-> None]

Init ==
    /\ builder = Some(VisaClientBuilder_new)
    /\ clients = <<>>
    /\ parsed = <<>>
    /\ calls = <<>>
    /\ ret = [op |-> "new"]
    /\ setters = NoSetterCalled
    /\ apis = <<>>

SetMutualTls(mutual_tls) ==
    /\ builder # None
    /\ builder' = Some(set_mutual_tls(builder[1], mutual_tls))
    /\ ret' = [op |-> "set_mutual_tls"]
    /\ setters' = [setters EXCEPT !.mutual_tls = Some(mutual_tls)]
    /\ UNCHANGED <<clients, parsed, calls, apis>>

SetMessageLevelEncryption(mle) ==
    /\ builder # None
    /\ builder' = Some(set_message_level_encryption(
                            builder[1], WithMessageLevelEncryption(mle)))
    /\ ret' = [op |-> "set_message_level_encryption"]
    /\ setters' = [setters EXCEPT !.message_level_encryption = Some(mle)]
    /\ UNCHANGED <<clients, parsed, calls, apis>>

\* A variant of set_api_level that starts from a new builder.
SetApiLevel_from_new(api_level) ==
    /\ builder # None
    /\ builder' = Some(set_api_level(VisaClientBuilder_new, api_level))
    /\ ret' = [op |-> "set_api_level"]
    /\ setters' = [setters EXCEPT !.api_level = Some(api_level)]
    /\ UNCHANGED <<clients, parsed, calls, apis>>

SetApiLevel(api_level) ==
    /\ builder # None
    /\ builder' = Some(set_api_level(builder[1], api_level))
    /\ ret' = [op |-> "set_api_level"]
    /\ setters' = [setters EXCEPT !.api_level = Some(api_level)]
    /\ UNCHANGED <<clients, parsed, calls, apis>>

\* The caller clones the builder and goes on with the clone.
CloneBuilder ==
    /\ builder # None
    /\ builder' = Some(VisaClientBuilder_clone(builder[1]))
    /\ ret' = [op |-> "builder_clone"]
    /\ UNCHANGED <<clients, parsed, calls, setters, apis>>

\* A variant of build that takes the builder by value.
Build_consuming ==
    /\ builder # None
    /\ has_build(builder[1])
    /\ Len(clients) < MaxClients
    /\ LET r == build(builder[1], FreshArc)
       IN  IF r.panic
           THEN /\ ret' = [op |-> "build", outcome |-> "panic"]
                /\ UNCHANGED <<clients, parsed>>
           ELSE /\ clients' = Append(clients, r.value)
                /\ parsed' = Append(parsed, [arc |-> r.value.client.arc,
                                             in |-> "build"])
                /\ ret' = [op |-> "build", outcome |-> "VisaClient"]
    /\ builder' = None
    /\ setters' = NoSetterCalled
    /\ UNCHANGED <<calls, apis>>

\* build(&self): callable when the builder's type has it; the builder stays.
Build ==
    /\ builder # None
    /\ has_build(builder[1])
    /\ Len(clients) < MaxClients
    /\ LET r == build(builder[1], FreshArc)
       IN  IF r.panic
           THEN /\ ret' = [op |-> "build", outcome |-> "panic"]
                /\ UNCHANGED <<clients, parsed>>
           ELSE /\ clients' = Append(clients, r.value)
                /\ parsed' = Append(parsed, [arc |-> r.value.client.arc,
                                             in |-> "build"])
                /\ ret' = [op |-> "build", outcome |-> "VisaClient"]
    /\ UNCHANGED <<builder, calls, setters, apis>>

\* The builder goes out of scope (the end of the statement that built the
\* client in samples/hello-world), and the record of its setter calls with
\* it; the requests follow.
DropBuilder ==
    /\ builder # None
    /\ builder' = None
    /\ ret' = [op |-> "drop"]
    /\ setters' = NoSetterCalled
    /\ UNCHANGED <<clients, parsed, calls, apis>>

Clone(i) ==
    /\ Len(clients) < MaxClients
    /\ clients' = Append(clients, VisaClient_clone(clients[i]))
    /\ ret' = [op |-> "clone"]
    /\ UNCHANGED <<builder, parsed, calls, setters, apis>>

GetConfig(i) ==
    /\ ret' = [op |-> "get_config", client |-> i, value |-> get_config(clients[i])]
    /\ UNCHANGED <<builder, clients, parsed, calls, setters, apis>>

GetBaseUrl(i) ==
    /\ ret' = [op |-> "get_base_url", client |-> i, value |-> get_base_url(clients[i])]
    /\ UNCHANGED <<builder, clients, parsed, calls, setters, apis>>

\* A variant of execute_request that replaces the client's transport by
\* one built for the call (the lazily built transport of other revisions).
ExecuteRequest_rebuilding(i, request) ==
    /\ builder = None
    /\ Len(calls) < MaxCalls
    /\ calls' = Append(calls, [pc      |-> "await",
                               client  |-> i,
                               request |-> request,
                               sent    |-> <<execute_request(clients[i], request)>>,
                               outcome |-> None,
                               result  |-> None])
    /\ clients' = [clients EXCEPT ![i].client.arc = 0]
    /\ UNCHANGED <<builder, parsed, ret, setters, apis>>

\* A caller task calls execute_request on client i and polls it: the code
\* up to the await runs and the request is dispatched.
ExecuteRequest(i, request) ==
    /\ builder = None
    /\ Len(calls) < MaxCalls
    /\ calls' = Append(calls, [pc      |-> "await",
                               client  |-> i,
                               request |-> request,
                               sent    |-> <<execute_request(clients[i], request)>>,
                               outcome |-> None,
                               result  |-> None])
    /\ UNCHANGED <<builder, clients, parsed, ret, setters, apis>>

\* A variant in which the transport's outcomes are handed to the awaiting
\* calls in the order the calls were dispatched.
Complete_in_dispatch_order(k, outcome) ==
    /\ calls[k].pc = "await"
    /\ LET j == CHOOSE j \in DOMAIN calls :
                    /\ calls[j].pc = "await"
                    /\ \A m \in 1..(j - 1) : calls[m].pc # "await"
       IN  calls' = [calls EXCEPT ![k].outcome = Some(outcome),
                                  ![j].pc = "returned",
                                  ![j].result = Some(execute_request_result(outcome))]
    /\ UNCHANGED <<builder, clients, parsed, ret, setters, apis>>

\* A variant that dispatches the request once more when the exchange failed
\* and returns what the second exchange gives.
Complete_retrying(k, outcome) ==
    /\ calls[k].pc = "await"
    /\ IF ~outcome.ok /\ Len(calls[k].sent) < 2
       THEN calls' = [calls EXCEPT ![k].sent = Append(@, @[1])]
       ELSE calls' = [calls EXCEPT ![k].pc = "returned",
                                   ![k].outcome = Some(outcome),
                                   ![k].result = Some(execute_request_result(outcome))]
    /\ UNCHANGED <<builder, clients, parsed, ret, setters, apis>>

\* The transport finishes the exchange of call k; the await yields its
\* outcome and execute_request returns.
Complete(k, outcome) ==
    /\ calls[k].pc = "await"
    /\ calls' = [calls EXCEPT ![k].pc = "returned",
                              ![k].outcome = Some(outcome),
                              ![k].result = Some(execute_request_result(outcome))]
    /\ UNCHANGED <<builder, clients, parsed, ret, setters, apis>>

Next ==
    \/ \E m \in MutualTlsInputs : SetMutualTls(m)
    \/ \E e \in MessageLevelEncryptionInputs : SetMessageLevelEncryption(e)
    \/ \E l \in ApiLevel : SetApiLevel(l)
    \/ CloneBuilder
    \/ Build
    \/ DropBuilder
    \/ \E i \in DOMAIN clients : Clone(i)
    \/ \E i \in DOMAIN clients : GetConfig(i)
    \/ \E i \in DOMAIN clients : GetBaseUrl(i)
    \/ \E i \in DOMAIN clients, r \in Requests : ExecuteRequest(i, r)
    \/ \E k \in DOMAIN calls, o \in TransportOutcomes : Complete(k, o)

Spec == Init /\ [][Next]_vars

\* ======================================================== endpoint wrappers
\* src/src/api: HelloWorld and ForeignExchange, each holding a VisaClient and
\* the Url resolved when it was constructed.

\* Url::join with a path reference: an absolute path replaces the path of
\* the base, a relative one replaces what follows the last '/' of it.
Url_join_appending(base, reference) ==
    [base EXCEPT !.path = @ \o reference]

Url_join(base, reference) ==
    IF reference[1] = "/"
    THEN [base EXCEPT !.path = reference]
    ELSE LET last == CHOOSE n \in 1..Len(base.path) :
                        /\ base.path[n] = "/"
                        /\ \A m \in (n + 1)..Len(base.path) : base.path[m] # "/"
         IN  [base EXCEPT !.path = SubSeq(@, 1, last) \o reference]

\* reqwest::Request::new
Request_new(method, url) ==
    [method |-> method, url |-> url, headers |-> <<>>, body |-> None]

\* ---- JSON. A JSON object is the sequence of its members <<key, value>>, a
\* value is tagged with its JSON type and kept as its text. A response body
\* is such an object or text that is not JSON.
JsonBody(object) == [json |-> TRUE, object |-> object]
TextBody(text) == [json |-> FALSE, text |-> text]
JsonString(v) == [t |-> "string", v |-> v]
JsonNumber(v) == [t |-> "number", v |-> v]
JsonBool(v) == [t |-> "bool", v |-> v]
JsonNull == [t |-> "null"]

\* Serialisation of an Option<T> field: null for None.
JsonOption(opt, tag) == IF opt = None THEN JsonNull ELSE [t |-> tag, v |-> opt[1]]

\* The member of an object with the given key, if there is one.
Member(object, key) ==
    IF \E n \in 1..Len(object) : object[n][1] = key
    THEN Some(object[CHOOSE n \in 1..Len(object) : object[n][1] = key][2])
    ELSE None

\* A member read into an Option<T> field: a missing member and null are None.
OptionalMember(object, key) ==
    IF Member(object, key) = None \/ Member(object, key)[1].t = "null"
    THEN None
    ELSE Some(Member(object, key)[1].v)

\* The payloads of the two ForeignExchange calls.
FXRequestAorB ==
    { [source_currency_code |-> "USD", destination_currency_code |-> "GBP",
       source_amount |-> "100.55", markup_rate |-> None,
       acquirer_details |-> None] }
FXRequestBankOrWallet ==
    { [source_currency_code |-> "USD", destination_currency_code |-> "GBP",
       source_amount |-> Some("100.55"), destination_amount |-> None,
       initiating_party_id |-> "1002", quote_id_required |-> Some("true")] }

\* json!(payload).to_string() for each payload type (derive(Serialize);
\* the members of a serde_json map come out in key order).
FXRequestAorB_to_json(payload) ==
    << <<"acquirer_details",
         IF payload.acquirer_details = None
         THEN JsonNull
         ELSE [t |-> "object",
               v |-> << <<"bin", JsonNumber(payload.acquirer_details[1].bin)>>,
                        <<"settlement_currency_code",
                          JsonString(payload.acquirer_details[1].settlement_currency_code)>> >>]>>,
       <<"destination_currency_code", JsonString(payload.destination_currency_code)>>,
       <<"markup_rate", JsonOption(payload.markup_rate, "string")>>,
       <<"source_amount", JsonString(payload.source_amount)>>,
       <<"source_currency_code", JsonString(payload.source_currency_code)>> >>

FXRequestBankOrWallet_to_json(payload) ==
    << <<"destination_amount", JsonOption(payload.destination_amount, "number")>>,
       <<"destination_currency_code", JsonString(payload.destination_currency_code)>>,
       <<"initiating_party_id", JsonNumber(payload.initiating_party_id)>>,
       <<"quote_id_required", JsonOption(payload.quote_id_required, "bool")>>,
       <<"source_amount", JsonOption(payload.source_amount, "number")>>,
       <<"source_currency_code", JsonString(payload.source_currency_code)>> >>

\* Response::json::<T>() for the three target types: the body must be JSON
\* and, for a struct, hold every required member with the field's type.
json_Value(body) ==
    IF ~body.json
    THEN Err("reqwest::Error(Decode)")
    ELSE Ok(body.object)

json_FXResponseAorB(body) ==
    IF /\ body.json
       /\ Member(body.object, "conversion_rate") # None
       /\ Member(body.object, "conversion_rate")[1].t = "string"
       /\ Member(body.object, "destination_amount") # None
       /\ Member(body.object, "destination_amount")[1].t = "string"
    THEN Ok([conversion_rate    |-> Member(body.object, "conversion_rate")[1].v,
             destination_amount |-> Member(body.object, "destination_amount")[1].v,
             markup_rate_applied |->
                 OptionalMember(body.object, "markup_rate_applied"),
             original_destn_amt_before_mark_up |->
                 OptionalMember(body.object, "original_destn_amt_before_mark_up")])
    ELSE Err("reqwest::Error(Decode)")

json_FXResponseBankOrWallet(body) ==
    IF /\ body.json
       /\ Member(body.object, "conversion_rate") # None
       /\ Member(body.object, "conversion_rate")[1].t = "number"
    THEN Ok([conversion_rate    |-> Member(body.object, "conversion_rate")[1].v,
             source_amount      |-> OptionalMember(body.object, "source_amount"),
             destination_amount |-> OptionalMember(body.object, "destination_amount"),
             quote_id           |-> OptionalMember(body.object, "quote_id"),
             quote_id_expiry_datetime |->
                 OptionalMember(body.object, "quote_id_expiry_datetime")])
    ELSE Err("reqwest::Error(Decode)")

\* The `?` of get_a_or_b / get_bank_or_wallet on an Err: the error is
\* converted (From::from) into the error type of api::result::Result.
From_from(error) == [from |-> error]

\* What the transport can make of a request of an endpoint wrapper.
ApiResponses ==
    { [status |-> "200 OK",
       body   |-> JsonBody(<< <<"message", JsonString("helloworld")>> >>)],
      [status |-> "200 OK",
       body   |-> JsonBody(<< <<"conversion_rate", JsonString("0.07")>>,
                              <<"destination_amount", JsonString("75.85")>> >>)],
      [status |-> "200 OK",
       body   |-> JsonBody(<< <<"conversion_rate", JsonNumber("0.07")>>,
                              <<"quote_id", JsonNumber("987654321")>> >>)],
      [status |-> "500 Internal Server Error",
       body   |-> TextBody("Internal Server Error")] }
ApiTransportOutcomes ==
    {Ok(r) : r \in ApiResponses} \cup {Err("reqwest::Error(Connect)")}

\* ------------------------------------------------------------- HelloWorld
\* A variant that resolves the URL as get_base_url() joined with
\* /vdp/helloworld at every level.
HelloWorld_new_joined(client) ==
    [kind   |-> "HelloWorld",
     client |-> client,
     url    |-> Url_join(get_base_url(client), <<"/", "vdp", "/", "helloworld">>)]

\* HelloWorld::new: the URL is parsed from the literal of the client's
\* api_level.
HelloWorld_new(client) ==
    [kind   |-> "HelloWorld",
     client |-> client,
     url    |-> Url_parse(
                  CASE get_config(client).api_level = "Sandbox" ->
                         <<"https", "://", "sandbox.api.visa.com",
                           "/", "vdp", "/", "helloworld">>
                    [] get_config(client).api_level = "Certification" ->
                         <<"https", "://", "cert.api.visa.com",
                           "/", "vdp", "/", "helloworld">>
                    [] get_config(client).api_level = "Production" ->
                         <<"https", "://", "api.visa.com",
                           "/", "helloworld">>)]

\* The request HelloWorld::get hands to execute_request.
HelloWorld_get(self) == Request_new("GET", self.url)

\* -------------------------------------------------------- ForeignExchange
ForeignExchange_URL ==
    <<"/", "forexrates", "/", "v2", "/", "foreignexchangerates">>

ForeignExchange_new(client) ==
    [kind   |-> "ForeignExchange",
     client |-> client,
     url    |-> Url_join(get_base_url(client), ForeignExchange_URL)]

\* The requests get_a_or_b and get_bank_or_wallet hand to execute_request.
ForeignExchange_get_a_or_b(self, payload) ==
    [Request_new("GET", self.url)
        EXCEPT !.body = Some(FXRequestAorB_to_json(payload))]

ForeignExchange_get_bank_or_wallet(self, payload) ==
    [Request_new("GET", self.url)
        EXCEPT !.body = Some(FXRequestBankOrWallet_to_json(payload))]

\* ------------------------------------------------- actions of the wrappers
\* A sequence without its i-th element (the value was moved out).
Moved(seq, i) == SubSeq(seq, 1, i - 1) \o SubSeq(seq, i + 1, Len(seq))

\* The clients build() returns for the builders a chain of setter calls on
\* new() can produce.
BuilderChains ==
    LET with_mutual_tls ==
            { set_mutual_tls(VisaClientBuilder_new, m) : m \in MutualTlsInputs }
        with_mle ==
            with_mutual_tls \cup
            { set_message_level_encryption(b, WithMessageLevelEncryption(e)) :
                b \in with_mutual_tls, e \in MessageLevelEncryptionInputs }
    IN  with_mle \cup
        { set_api_level(b, l) : b \in with_mle, l \in ApiLevel }

BuiltClients ==
    { build(b, 1).value :
        b \in { b \in BuilderChains : has_build(b) /\ ~build(b, 1).panic } }

\* The state of samples/hello-world after its client is built: one client,
\* the builder gone.
InitApi ==
    /\ builder = None
    /\ \E c \in BuiltClients : clients = <<c>>
    /\ parsed = <<[arc |-> 1, in |-> "build"]>>
    /\ calls = <<>>
    /\ ret = [op |-> "build", outcome |-> "VisaClient"]
    /\ setters = NoSetterCalled
    /\ apis = <<>>

\* HelloWorld::new(client): the client is moved into the wrapper.
NewHelloWorld(i) ==
    /\ Len(apis) < MaxApis
    /\ apis' = Append(apis, HelloWorld_new(clients[i]))
    /\ clients' = Moved(clients, i)
    /\ ret' = [op |-> "HelloWorld::new"]
    /\ UNCHANGED <<builder, parsed, calls, setters>>

\* ForeignExchange::new(client): the client is moved into the wrapper.
NewForeignExchange(i) ==
    /\ Len(apis) < MaxApis
    /\ apis' = Append(apis, ForeignExchange_new(clients[i]))
    /\ clients' = Moved(clients, i)
    /\ ret' = [op |-> "ForeignExchange::new"]
    /\ UNCHANGED <<builder, parsed, calls, setters>>

\* A call of a wrapper method up to the await of execute_request: the
\* request is built and dispatched through the wrapper's client.
StartCall(w, op, request) ==
    /\ Len(calls) < MaxCalls
    /\ calls' = Append(calls, [pc      |-> "await",
                               api     |-> w,
                               op      |-> op,
                               request |-> request,
                               sent    |-> <<execute_request(apis[w].client, request)>>,
                               outcome |-> None,
                               result  |-> None,
                               value   |-> None])
    /\ UNCHANGED <<builder, clients, parsed, ret, setters, apis>>

HelloWorldGet(w) ==
    /\ apis[w].kind = "HelloWorld"
    /\ StartCall(w, "get", HelloWorld_get(apis[w]))

GetAOrB(w, payload) ==
    /\ apis[w].kind = "ForeignExchange"
    /\ StartCall(w, "get_a_or_b", ForeignExchange_get_a_or_b(apis[w], payload))

GetBankOrWallet(w, payload) ==
    /\ apis[w].kind = "ForeignExchange"
    /\ StartCall(w, "get_bank_or_wallet",
                 ForeignExchange_get_bank_or_wallet(apis[w], payload))

\* execute_request(request).await resolves in call k: get() unwraps the
\* result (a panic on Err), the ForeignExchange calls apply `?` (an early
\* return of the converted error); on Ok the call goes on to read the body.
ExecuteRequestReturns(k, outcome) ==
    /\ calls[k].pc = "await"
    /\ LET r == execute_request_result(outcome)
       IN  calls' = [calls EXCEPT
                ![k].outcome = Some(outcome),
                ![k].result = Some(r),
                ![k].pc = IF r.ok THEN "json"
                          ELSE IF calls[k].op = "get" THEN "panicked"
                          ELSE "returned",
                ![k].value = IF r.ok \/ calls[k].op = "get" THEN None
                             ELSE Some(Err(From_from(r.error)))]
    /\ UNCHANGED <<builder, clients, parsed, ret, setters, apis>>

\* response.json::<T>().await resolves in call k: get() unwraps the parsed
\* value, the ForeignExchange calls return Ok of it or the converted error.
JsonReturns(k) ==
    /\ calls[k].pc = "json"
    /\ LET body == calls[k].result[1].value.body
           parsed_body ==
               CASE calls[k].op = "get" -> json_Value(body)
                 [] calls[k].op = "get_a_or_b" -> json_FXResponseAorB(body)
                 [] calls[k].op = "get_bank_or_wallet" ->
                        json_FXResponseBankOrWallet(body)
       IN  calls' = [calls EXCEPT
                ![k].pc = IF calls[k].op = "get" /\ ~parsed_body.ok
                          THEN "panicked" ELSE "returned",
                ![k].value =
                    IF calls[k].op = "get"
                    THEN (IF parsed_body.ok THEN Some(parsed_body.value) ELSE None)
                    ELSE (IF parsed_body.ok
                          THEN Some(Ok(parsed_body.value))
                          ELSE Some(Err(From_from(parsed_body.error))))]
    /\ UNCHANGED <<builder, clients, parsed, ret, setters, apis>>

NextApi ==
    \/ \E i \in DOMAIN clients : Clone(i)
    \/ \E i \in DOMAIN clients : NewHelloWorld(i)
    \/ \E i \in DOMAIN clients : NewForeignExchange(i)
    \/ \E w \in DOMAIN apis : HelloWorldGet(w)
    \/ \E w \in DOMAIN apis, p \in FXRequestAorB : GetAOrB(w, p)
    \/ \E w \in DOMAIN apis, p \in FXRequestBankOrWallet : GetBankOrWallet(w, p)
    \/ \E k \in DOMAIN calls, o \in ApiTransportOutcomes : ExecuteRequestReturns(k, o)
    \/ \E k \in DOMAIN calls : JsonReturns(k)

SpecApi == InitApi /\ [][NextApi]_vars

\* ================================================================== claims
\* Whether from_pkcs12_der accepts the certificate of these credentials
\* with the password build_reqwest passes for them.
CertParses(mutual_tls) ==
    from_pkcs12_der(mutual_tls.cert,
                    IF mutual_tls.cert_key # None
                    THEN mutual_tls.cert_key[1]
                    ELSE <<>>).ok

\* C1: build() can be called exactly when the builder holds mutual-TLS
\* credentials, whatever its MLE phase (and whether or not the call then
\* succeeds); every build() that has run ran on such a builder, and the
\* client it produced holds that builder's credentials.
C1_BuildExactlyWithMutualTls ==
    /\ (builder # None /\ Len(clients) < MaxClients)
          => ((ENABLED Build) <=> builder[1].mutual_tls # WithoutMutualTls)
    /\ ret.op = "build" => builder[1].mutual_tls # WithoutMutualTls
    /\ (ret.op = "build" /\ ret.outcome = "VisaClient")
          => clients[Len(clients)].mutual_tls = builder[1].mutual_tls[1]

\* C1 witness: clients have been built both without and with MLE.
C1_Witness ==
    /\ Len(clients) = 2
    /\ ret.op = "build"
    /\ ~has_mle(clients[1].message_level_encryption)
    /\ has_mle(clients[2].message_level_encryption)

\* C2 (as claimed): a build() on a builder whose certificate does not parse
\* gives its caller an error value (ConfigurationError / CertificateError).
C2_UnparseableCertReturnsError ==
    (ret.op = "build" /\ builder[1].mutual_tls[1].cert = "not_pkcs12")
        => ret.outcome = "Err(ConfigurationError)"

\* C3: every client alive holds a certificate that parsed, and a transport
\* handle carrying the identity parsed from it; a build() whose certificate
\* does not parse produces no client; every request is dispatched with a
\* parsed identity, and a failed request fails with the transport's error.
C3_CertificateDecidedAtBuild ==
    /\ \A i \in DOMAIN clients :
          /\ CertParses(clients[i].mutual_tls)
          /\ clients[i].client.identity =
                [pkcs12 |-> clients[i].mutual_tls.cert,
                 password |-> clients[i].mutual_tls.cert_key[1]]
    /\ ret.op = "build"
          => (ret.outcome = "VisaClient" <=> CertParses(builder[1].mutual_tls[1]))
    /\ Len(parsed) <= Len(clients)
    /\ \A k \in DOMAIN calls :
          /\ calls[k].sent[1].via.identity.pkcs12 = "pkcs12_der"
          /\ (calls[k].pc = "returned" /\ ~calls[k].result[1].ok)
                => calls[k].result[1] = calls[k].outcome[1]

\* C3 witness: a build() has just failed on an unparseable certificate
\* while a client built earlier is alive.
C3_Witness ==
    /\ Len(clients) >= 1
    /\ ret.op = "build"
    /\ ret.outcome = "panic"
    /\ builder[1].mutual_tls[1].cert = "not_pkcs12"

\* ---- what a server makes of an Authorization header (RFC 7617, RFC 4648)
RECURSIVE base64_decode(_)
base64_decode(token) ==
    CASE Len(token) = 0 -> <<>>
      [] Len(token) >= 4 /\ token[3] = 64 ->
            << token[1] * 4 + token[2] \div 16 >>
      [] Len(token) >= 4 /\ token[3] # 64 /\ token[4] = 64 ->
            << token[1] * 4 + token[2] \div 16,
               (token[2] % 16) * 16 + token[3] \div 4 >>
      [] OTHER ->
            << token[1] * 4 + token[2] \div 16,
               (token[2] % 16) * 16 + token[3] \div 4,
               (token[3] % 4) * 64 + token[4] >>
            \o base64_decode(SubSeq(token, 5, Len(token)))

\* user-pass = user-id ":" password: the user id ends at the first ':'.
SplitUserPass(bytes) ==
    LET colon == CHOOSE n \in 1..Len(bytes) :
                    /\ bytes[n] = 58
                    /\ \A m \in 1..(n - 1) : bytes[m] # 58
    IN  << SubSeq(bytes, 1, colon - 1), SubSeq(bytes, colon + 1, Len(bytes)) >>

HasColon(bytes) == \E n \in 1..Len(bytes) : bytes[n] = 58

AuthorizationHeaders(request) ==
    SelectSeq(request.headers, LAMBDA h : h[1] = "authorization")

ClientOf(k) == clients[calls[k].client]
Sent(k) == calls[k].sent[1]

\* C4 (as claimed): the request every call dispatches carries one basic-auth
\* header whose decoded (user id, password) is the pair its client was built
\* with.
C4_DecodedPairEqualsCredentials ==
    \A k \in DOMAIN calls :
        LET hs == AuthorizationHeaders(Sent(k).request)
        IN  /\ Len(hs) = 1
            /\ hs[1][2].scheme = "Basic"
            /\ SplitUserPass(base64_decode(hs[1][2].token)) =
                    << ClientOf(k).mutual_tls.user_id, ClientOf(k).mutual_tls.password >>

\* C4 (amended): the request every call dispatches carries one basic-auth
\* header, the base64 of user_id ':' password of the credentials its client
\* was built with (those the builder held at build()); it decodes to that
\* pair whenever the user id contains no ':'.
C4_BasicAuthOfClientCredentials ==
    /\ (ret.op = "build" /\ ret.outcome = "VisaClient")
          => clients[Len(clients)].mutual_tls = builder[1].mutual_tls[1]
    /\ \A k \in DOMAIN calls :
          LET hs == AuthorizationHeaders(Sent(k).request)
              user_id == ClientOf(k).mutual_tls.user_id
              password == ClientOf(k).mutual_tls.password
          IN  /\ Len(hs) = 1
              /\ hs[1][2].scheme = "Basic"
              /\ base64_decode(hs[1][2].token) = user_id \o <<58>> \o password
              /\ ~HasColon(user_id)
                    => SplitUserPass(base64_decode(hs[1][2].token)) = <<user_id, password>>

\* C4 witness: a request with a body was dispatched by a Production client
\* with MLE configured and a user id without ':'.
C4_Witness ==
    \E k \in DOMAIN calls :
        /\ has_mle(ClientOf(k).message_level_encryption)
        /\ ClientOf(k).config.api_level = "Production"
        /\ calls[k].request.body # None
        /\ ~HasColon(ClientOf(k).mutual_tls.user_id)

\* C5: every call applied authentication, then the MLE step, then
\* dispatched, in that order, and returned only after the dispatch; the
\* dispatched request carries the authentication.
C5_PipelineOrder ==
    \A k \in DOMAIN calls :
        /\ Sent(k).steps = <<"apply_auth", "apply_message_level_encryption", "send">>
        /\ Len(AuthorizationHeaders(Sent(k).request)) >= 1
        /\ calls[k].pc \in {"await", "returned"}
        /\ calls[k].pc = "await" => calls[k].result = None
        /\ calls[k].pc = "returned" => calls[k].result # None

\* C5 witness: one call has returned and another is dispatched and waiting.
C5_Witness ==
    \E k, j \in DOMAIN calls :
        calls[k].pc = "returned" /\ calls[j].pc = "await"

C7_BodyPassThrough ==
    \A k \in DOMAIN calls :
        /\ Sent(k).request.body = calls[k].request.body
        /\ Sent(k).request.url = calls[k].request.url
        /\ Sent(k).request.method = calls[k].request.method
        /\ (calls[k].pc = "returned" /\ calls[k].outcome[1].ok)
              => /\ calls[k].result[1].ok
                 /\ calls[k].result[1].value.body = calls[k].outcome[1].value.body

\* C7 witness: a call with a body on a client with MLE has returned a
\* response.
C7_Witness ==
    \E k \in DOMAIN calls :
        /\ has_mle(ClientOf(k).message_level_encryption)
        /\ calls[k].request.body # None
        /\ calls[k].pc = "returned"
        /\ calls[k].result[1].ok

\* C8: the identity of every client's transport was parsed once, in
\* build(); as many identities were parsed as there are transports; every
\* call dispatched over the transport of its client.
C8_IdentityDerivedOnceInBuild ==
    /\ \A i \in DOMAIN clients :
          /\ Cardinality({j \in DOMAIN parsed : parsed[j].arc = clients[i].client.arc}) = 1
          /\ \A j \in DOMAIN parsed :
                parsed[j].arc = clients[i].client.arc => parsed[j].in = "build"
    /\ Len(parsed) = Cardinality({clients[i].client.arc : i \in DOMAIN clients})
    /\ \A k \in DOMAIN calls : Sent(k).via = ClientOf(k).client

\* C8 witness: two calls were dispatched on the second of two separately
\* built clients.
C8_Witness ==
    /\ Len(clients) = 2
    /\ clients[1].client.arc # clients[2].client.arc
    /\ Len(calls) = 2
    /\ calls[1].client = 2
    /\ calls[2].client = 2

\* C9: no step changes a client that exists; a client that appears is the
\* result of build() or equal, field by field, to the client it was cloned
\* from.
C9_ClientNeverMutated ==
    [][ /\ Len(clients') >= Len(clients)
        /\ \A i \in DOMAIN clients : clients'[i] = clients[i]
        /\ (Len(clients') > Len(clients) /\ ret'.op # "build")
              => \E i \in DOMAIN clients : clients'[Len(clients')] = clients[i]
      ]_vars

\* C9 witness: a client has been cloned, used for a request that returned,
\* and read with an accessor.
C9_Witness ==
    /\ Len(clients) = 2
    /\ clients[2] = clients[1]
    /\ ret.op \in {"get_config", "get_base_url"}
    /\ \E k \in DOMAIN calls : calls[k].pc = "returned"

\* C10: in every interleaving, the request a call dispatched is its own
\* request with its own client's credentials over its own client's
\* transport, and what it returned is the outcome of its own exchange.
C10_CallsIndependent ==
    \A k \in DOMAIN calls :
        /\ Sent(k).request.body = calls[k].request.body
        /\ Sent(k).request.url = calls[k].request.url
        /\ \A n \in 1..Len(AuthorizationHeaders(Sent(k).request)) :
              base64_decode(AuthorizationHeaders(Sent(k).request)[n][2].token) =
                ClientOf(k).mutual_tls.user_id \o <<58>> \o ClientOf(k).mutual_tls.password
        /\ Sent(k).via.arc = ClientOf(k).client.arc
        /\ calls[k].pc = "await" => (calls[k].outcome = None /\ calls[k].result = None)
        /\ calls[k].pc = "returned" => calls[k].result = calls[k].outcome

\* C10 witness: two calls with different requests overlapped on a client
\* and its clone, and the later one returned first.
C10_Witness ==
    /\ Len(clients) = 2
    /\ clients[2] = clients[1]
    /\ Len(calls) = 2
    /\ calls[1].client # calls[2].client
    /\ calls[1].request # calls[2].request
    /\ calls[1].pc = "await"
    /\ calls[2].pc = "returned"

\* C11: every call has dispatched exactly one request, from the step that
\* started it on; a call whose exchange failed has returned, with a failure,
\* and still has that one dispatch.
C11_ExactlyOneDispatch ==
    \A k \in DOMAIN calls :
        /\ Len(calls[k].sent) = 1
        /\ calls[k].outcome # None => calls[k].pc = "returned"
        /\ (calls[k].outcome # None /\ ~calls[k].outcome[1].ok)
              => /\ calls[k].pc = "returned"
                 /\ ~calls[k].result[1].ok
                 /\ Len(calls[k].sent) = 1

\* C11 witness: one call has failed and returned, after which another call
\* on the same client got a response.
C11_Witness ==
    /\ Len(calls) = 2
    /\ calls[1].client = calls[2].client
    /\ calls[1].pc = "returned"
    /\ ~calls[1].result[1].ok
    /\ calls[2].pc = "returned"
    /\ calls[2].result[1].ok

\* C12: what a call returned is the transport's outcome, value for value:
\* the same error when the exchange failed, the same response as a success
\* when there is one, whatever its status.
C12_RawOutcome ==
    \A k \in DOMAIN calls :
        calls[k].pc = "returned" =>
            /\ calls[k].result = calls[k].outcome
            /\ calls[k].outcome[1] \in TransportOutcomes
            /\ ~calls[k].outcome[1].ok
                  => calls[k].result[1] = Err(calls[k].outcome[1].error)
            /\ calls[k].outcome[1].ok
                  => calls[k].result[1] = Ok(calls[k].outcome[1].value)

\* C12 witness: one call has returned a 500 response as a success and
\* another has returned the transport's error.
C12_Witness ==
    \E k, j \in DOMAIN calls :
        /\ calls[k].pc = "returned"
        /\ calls[k].result[1].ok
        /\ calls[k].result[1].value.status = "500 Internal Server Error"
        /\ calls[j].pc = "returned"
        /\ ~calls[j].result[1].ok
        /\ calls[j].result[1].error = "reqwest::Error(Connect)"

\* C13: a set_mutual_tls(m) step, from a builder in any phase, gives a
\* builder that holds exactly m as its credentials (MutualTls Present) and
\* the MLE marker (phase and configuration) and api_level of the builder it
\* was called on.
C13_SetMutualTlsFrame ==
    [][ \A m \in MutualTlsInputs :
            SetMutualTls(m) =>
                /\ builder' # None
                /\ MTLS(builder'[1]) = "WithMutualTls"
                /\ builder'[1].mutual_tls = <<m>>
                /\ builder'[1].message_level_encryption =
                        builder[1].message_level_encryption
                /\ builder'[1].api_level = builder[1].api_level
      ]_vars

\* C13 witness: set_mutual_tls has returned a builder that kept an MLE
\* configuration and the Production level set before it.
C13_Witness ==
    /\ ret.op = "set_mutual_tls"
    /\ builder[1].mutual_tls = <<setters.mutual_tls[1]>>
    /\ setters.message_level_encryption # None
    /\ builder[1].message_level_encryption = setters.message_level_encryption
    /\ builder[1].api_level = "Production"

\* C14: a set_message_level_encryption step is possible on a builder
\* without and with credentials, and gives a builder that holds exactly the
\* given configuration (MLE Present) and the MutualTls marker (phase and
\* credentials) and api_level of the builder it was called on.
C14_SetMessageLevelEncryptionFrame ==
    [][ /\ builder # None =>
              \A e \in MessageLevelEncryptionInputs :
                  ENABLED SetMessageLevelEncryption(e)
        /\ \A e \in MessageLevelEncryptionInputs :
              SetMessageLevelEncryption(e) =>
                  /\ builder' # None
                  /\ has_mle(builder'[1].message_level_encryption)
                  /\ builder'[1].message_level_encryption = <<e>>
                  /\ builder'[1].mutual_tls = builder[1].mutual_tls
                  /\ MTLS(builder'[1]) = MTLS(builder[1])
                  /\ builder'[1].api_level = builder[1].api_level
      ]_vars

\* C14 witness: set_message_level_encryption has returned a builder that
\* kept the credentials and the Certification level set before it.
C14_Witness ==
    /\ ret.op = "set_message_level_encryption"
    /\ builder[1].message_level_encryption = setters.message_level_encryption
    /\ setters.mutual_tls # None
    /\ builder[1].mutual_tls = setters.mutual_tls
    /\ builder[1].api_level = "Certification"

\* C15: a set_api_level(l) step gives a builder whose api_level is l and
\* whose MutualTls and MLE markers (phases, credentials, configuration) are
\* those of the builder it was called on.
C15_SetApiLevelFrame ==
    [][ \A l \in ApiLevel :
            SetApiLevel(l) =>
                /\ builder' # None
                /\ builder'[1].api_level = l
                /\ builder'[1].mutual_tls = builder[1].mutual_tls
                /\ builder'[1].message_level_encryption =
                        builder[1].message_level_encryption
                /\ MTLS(builder'[1]) = MTLS(builder[1])
                /\ has_mle(builder'[1].message_level_encryption) =
                        has_mle(builder[1].message_level_encryption)
      ]_vars

\* C15 witness: set_api_level has returned a builder that kept the
\* credentials and the MLE configuration set before it.
C15_Witness ==
    /\ ret.op = "set_api_level"
    /\ builder[1].api_level = "Production"
    /\ setters.mutual_tls # None
    /\ builder[1].mutual_tls = setters.mutual_tls
    /\ setters.message_level_encryption # None
    /\ builder[1].message_level_encryption = setters.message_level_encryption

\* C16: the builder new() returns has no credentials, no MLE and api_level
\* Sandbox; as long as set_api_level was not called the builder's level is
\* Sandbox, and a client built then has api_level Sandbox and the sandbox
\* domain as its base URL.
C16_NewDefaults ==
    /\ ret.op = "new" =>
          /\ builder = Some([mutual_tls               |-> WithoutMutualTls,
                              message_level_encryption |-> WithoutMessageLevelEncryption,
                              api_level                |-> "Sandbox"])
          /\ MTLS(builder[1]) = "WithoutMutualTls"
          /\ ~has_mle(builder[1].message_level_encryption)
    /\ (builder # None /\ setters.api_level = None)
          => builder[1].api_level = "Sandbox"
    /\ (ret.op = "build" /\ ret.outcome = "VisaClient" /\ setters.api_level = None)
          => /\ get_config(clients[Len(clients)]).api_level = "Sandbox"
             /\ get_base_url(clients[Len(clients)]) =
                    [scheme |-> "https", host |-> "sandbox.api.visa.com",
                     path |-> <<"/">>]

\* C16 witness: a client with MLE has been built on a chain that never
\* called set_api_level.
C16_Witness ==
    /\ ret.op = "build"
    /\ ret.outcome = "VisaClient"
    /\ setters.api_level = None
    /\ setters.message_level_encryption # None

\* C19: has_mle is false for the Absent marker and true for the Present
\* marker whatever configuration it holds (empty keys included), and the
\* client a build() returns has has_mle() true exactly when
\* set_message_level_encryption was called on the builder before.
C19_HasMleIsPresence ==
    /\ ~has_mle(WithoutMessageLevelEncryption)
    /\ \A e \in MessageLevelEncryptionInputs :
          has_mle(WithMessageLevelEncryption(e))
    /\ (ret.op = "build" /\ ret.outcome = "VisaClient")
          => (has_mle(clients[Len(clients)].message_level_encryption)
                <=> setters.message_level_encryption # None)

\* C19 witness: a client has been built after a
\* set_message_level_encryption whose configuration has empty keys.
C19_Witness ==
    /\ ret.op = "build"
    /\ ret.outcome = "VisaClient"
    /\ setters.message_level_encryption # None
    /\ setters.message_level_encryption[1].client_private_key = <<>>
    /\ setters.message_level_encryption[1].server_public_key = <<>>
    /\ clients[Len(clients)].message_level_encryption =
            <<setters.message_level_encryption[1]>>

\* C20: the client a build() returns holds the argument of the last
\* set_mutual_tls, the level of the last set_api_level (Sandbox if none) and
\* the configuration of the last set_message_level_encryption (no MLE if
\* none); and on every builder, two calls to different setters give the
\* same builder, and the same client, in either order.
C20_LastWriteWins ==
    /\ (ret.op = "build" /\ ret.outcome = "VisaClient") =>
          LET c == clients[Len(clients)]
          IN  /\ setters.mutual_tls # None
              /\ c.mutual_tls = setters.mutual_tls[1]
              /\ c.config.api_level =
                    (IF setters.api_level = None
                     THEN "Sandbox" ELSE setters.api_level[1])
              /\ c.message_level_encryption =
                    (IF setters.message_level_encryption = None
                     THEN WithoutMessageLevelEncryption
                     ELSE WithMessageLevelEncryption(
                            setters.message_level_encryption[1]))
    /\ builder # None =>
          LET b == builder[1]
          IN  \A m \in MutualTlsInputs, l \in ApiLevel,
                 e \in MessageLevelEncryptionInputs :
                  LET w  == WithMessageLevelEncryption(e)
                      ml == set_api_level(set_mutual_tls(b, m), l)
                      lm == set_mutual_tls(set_api_level(b, l), m)
                      me == set_message_level_encryption(set_mutual_tls(b, m), w)
                      em == set_mutual_tls(set_message_level_encryption(b, w), m)
                      le == set_message_level_encryption(set_api_level(b, l), w)
                      el == set_api_level(set_message_level_encryption(b, w), l)
                  IN  /\ ml = lm
                      /\ me = em
                      /\ le = el
                      /\ build(ml, FreshArc) = build(lm, FreshArc)
                      /\ build(me, FreshArc) = build(em, FreshArc)

\* C20 witness: two clients built from the one builder differ in
\* credentials, level and MLE configuration: each setter was called again
\* between the two build() calls.
C20_Witness ==
    /\ ret.op = "build"
    /\ ret.outcome = "VisaClient"
    /\ Len(clients) = 2
    /\ clients[1].mutual_tls # clients[2].mutual_tls
    /\ clients[1].config.api_level = "Production"
    /\ clients[2].config.api_level = "Certification"
    /\ has_mle(clients[1].message_level_encryption)
    /\ has_mle(clients[2].message_level_encryption)
    /\ clients[1].message_level_encryption # clients[2].message_level_encryption

\* The wrapper of call k and the api_level of that wrapper's client.
ApiOf(k) == apis[calls[k].api]
LevelOf(api) == api.client.config.api_level

\* The host of the fixed domain table for a level.
DomainOf(level) ==
    CASE level = "Sandbox" -> "sandbox.api.visa.com"
      [] level = "Certification" -> "cert.api.visa.com"
      [] level = "Production" -> "api.visa.com"

\* C17: a HelloWorld wrapper holds, and each get() sends as one GET
\* through execute_request (over the wrapper's client, authenticated), the
\* URL of its client's level: https://sandbox.api.visa.com/vdp/helloworld,
\* https://cert.api.visa.com/vdp/helloworld, https://api.visa.com/helloworld;
\* scheme and host are those of get_base_url(), the path depends on the
\* level only.
C17_HelloWorldUrls ==
    /\ \A w \in DOMAIN apis :
          apis[w].kind = "HelloWorld" =>
              /\ Url_as_str(apis[w].url) =
                    <<"https", "://", DomainOf(LevelOf(apis[w]))>> \o
                    (IF LevelOf(apis[w]) = "Production"
                     THEN <<"/", "helloworld">>
                     ELSE <<"/", "vdp", "/", "helloworld">>)
              /\ apis[w].url.scheme = get_base_url(apis[w].client).scheme
              /\ apis[w].url.host = get_base_url(apis[w].client).host
    /\ \A k \in DOMAIN calls :
          calls[k].op = "get" =>
              /\ ApiOf(k).kind = "HelloWorld"
              /\ calls[k].request.method = "GET"
              /\ calls[k].request.url = ApiOf(k).url
              /\ Len(calls[k].sent) = 1
              /\ Sent(k).request.method = "GET"
              /\ Sent(k).request.url = ApiOf(k).url
              /\ Sent(k).via = ApiOf(k).client.client
              /\ Sent(k).steps =
                    <<"apply_auth", "apply_message_level_encryption", "send">>

\* C17 witness: a get() of a HelloWorld wrapper on a Production client has
\* returned a value.
C17_Witness ==
    \E k \in DOMAIN calls :
        /\ calls[k].op = "get"
        /\ LevelOf(ApiOf(k)) = "Production"
        /\ calls[k].pc = "returned"
        /\ calls[k].value # None

\* C18: a wrapper, once constructed, never changes (its URL is the one its
\* constructor resolved); every call of a wrapper has dispatched exactly one
\* request, a GET carrying the wrapper's URL; and the URL of a
\* ForeignExchange wrapper is get_base_url() with the path
\* /forexrates/v2/foreignexchangerates.
C18_UrlResolvedOnce ==
    /\ [](\A w \in DOMAIN apis :
            apis[w].kind = "ForeignExchange" =>
                /\ apis[w].url =
                      [get_base_url(apis[w].client) EXCEPT
                          !.path = <<"/", "forexrates", "/", "v2", "/",
                                     "foreignexchangerates">>]
                /\ Url_as_str(apis[w].url) =
                      <<"https", "://", DomainOf(LevelOf(apis[w])),
                        "/", "forexrates", "/", "v2", "/", "foreignexchangerates">>)
    /\ [](\A k \in DOMAIN calls :
            /\ calls[k].request.method = "GET"
            /\ calls[k].request.url = ApiOf(k).url
            /\ Len(calls[k].sent) = 1
            /\ Sent(k).request.method = "GET"
            /\ Sent(k).request.url = ApiOf(k).url)
    /\ [][ /\ Len(apis') >= Len(apis)
           /\ \A w \in DOMAIN apis : apis'[w] = apis[w] ]_vars

\* C18 witness: a ForeignExchange wrapper has made a get_a_or_b call that
\* returned and then a get_bank_or_wallet call, still waiting.
C18_Witness ==
    /\ Len(calls) = 2
    /\ calls[1].api = calls[2].api
    /\ ApiOf(1).kind = "ForeignExchange"
    /\ calls[1].op = "get_a_or_b"
    /\ calls[1].pc = "returned"
    /\ calls[2].op = "get_bank_or_wallet"
    /\ calls[2].pc = "await"

\* C21: no step on a builder (a setter, a clone, a build) takes a phase
\* back: a builder with credentials is followed by a builder with
\* credentials, one with MLE by one with MLE.
C21_PhasesMonotone ==
    [][ (builder # None /\ builder' # None) =>
            /\ MTLS(builder[1]) = "WithMutualTls"
                  => MTLS(builder'[1]) = "WithMutualTls"
            /\ builder[1].mutual_tls # WithoutMutualTls
                  => builder'[1].mutual_tls # WithoutMutualTls
            /\ has_mle(builder[1].message_level_encryption)
                  => has_mle(builder'[1].message_level_encryption)
            /\ builder[1].message_level_encryption # WithoutMessageLevelEncryption
                  => builder'[1].message_level_encryption
                        # WithoutMessageLevelEncryption
      ]_vars

\* C21 witness: after a build, set_mutual_tls was called again on a builder
\* with both phases Present and a level set, and both are still Present.
C21_Witness ==
    /\ ret.op = "set_mutual_tls"
    /\ Len(clients) >= 1
    /\ setters.api_level # None
    /\ MTLS(builder[1]) = "WithMutualTls"
    /\ has_mle(builder[1].message_level_encryption)
    /\ builder[1].mutual_tls[1] # clients[1].mutual_tls

\* C22: a build() step leaves the builder as it was, still with build();
\* the client it adds has the builder's credentials, MLE marker and level,
\* a transport of its own whose identity was parsed once; a build() right
\* after a build() gives a client equal to the previous one in all but the
\* transport; and no step on the builder (setter, clone, build, drop)
\* changes a client built before.
C22_BuildLeavesBuilder ==
    [][ /\ (ret'.op = "build" /\ (ret' # ret \/ clients' # clients))
              => /\ builder' = builder
                 /\ has_build(builder'[1])
        /\ (ret'.op = "build" /\ ret'.outcome = "VisaClient")
              => (Len(clients') = Len(clients) + 1 =>
                    LET c == clients'[Len(clients')]
                    IN  /\ c.mutual_tls = builder[1].mutual_tls[1]
                        /\ c.message_level_encryption =
                                builder[1].message_level_encryption
                        /\ c.config.api_level = builder[1].api_level
                        /\ \A i \in DOMAIN clients :
                                clients[i].client.arc # c.client.arc
                        /\ Cardinality({j \in DOMAIN parsed' :
                                parsed'[j].arc = c.client.arc}) = 1
                        /\ (ret.op = "build" /\ ret.outcome = "VisaClient")
                              => /\ c.mutual_tls = clients[Len(clients)].mutual_tls
                                 /\ c.message_level_encryption =
                                        clients[Len(clients)].message_level_encryption
                                 /\ c.config = clients[Len(clients)].config
                                 /\ c.client.identity =
                                        clients[Len(clients)].client.identity)
        /\ builder' # builder
              => \A i \in DOMAIN clients :
                    /\ i \in DOMAIN clients'
                    /\ clients'[i] = clients[i]
      ]_vars

\* C22 witness: two clients built one after the other from the same
\* builder, equal but for their transports, and setters called on the
\* builder since: the builder now differs from them in every field.
C22_Witness ==
    /\ Len(clients) = 2
    /\ clients[1].client.arc # clients[2].client.arc
    /\ clients[1].mutual_tls = clients[2].mutual_tls
    /\ clients[1].config = clients[2].config
    /\ clients[1].message_level_encryption = clients[2].message_level_encryption
    /\ builder # None
    /\ builder[1].mutual_tls[1] # clients[1].mutual_tls
    /\ builder[1].api_level # clients[1].config.api_level
    /\ builder[1].message_level_encryption # clients[1].message_level_encryption
    /\ ret.op = "builder_clone"

====
